---------------------------- MODULE Spec2Model ----------------------------
(***************************************************************************)
(* A model of app.py: a Streamlit page that builds a Google News RSS       *)
(* query for a place name, fetches the feed, deduplicates the entries by   *)
(* link, converts their published times to JST and displays the rows.      *)
(*                                                                         *)
(* Representation of Python values:                                        *)
(*   - a str is a sequence; "" is << >>.  Place and query strings are      *)
(*     sequences of one-token strings, links and titles are sequences of   *)
(*     character codes (naturals), a formatted date is <<Y, M, D>> and a   *)
(*     formatted timestamp is <<Y, M, D, h, m>>;                           *)
(*   - a dict key is an option [has, val]: has = FALSE is a missing key;   *)
(*   - a value that may be None is a record with a field none.             *)
(***************************************************************************)
EXTENDS Integers, Sequences, FiniteSets, TLC

VARIABLES
    place,       \* st.text_input value (app.py:70)
    max_rows,    \* st.slider value (app.py:71)
    run,         \* st.button value in the last run of the script (app.py:72)
    now,         \* the wall clock, in minutes since the epoch (UTC)
    hostOffset,  \* the host's local timezone, minutes east of UTC
    ui,          \* what the last run of the script rendered
    t1,          \* the clock as read by xdaysago(1)  (app.py:56), in minutes
    t2,          \* the clock as read by xdaysago(-1) (app.py:57), in minutes
    query,       \* q_to_tb's query (app.py:58)
    rss_url,     \* q_to_tb's rss_url (app.py:61)
    fetched,     \* whether the last run called feedparser.parse (app.py:28)
    feed,        \* fp.entries, the entries the parser returned (app.py:28)
    limit,       \* google_news_to_table's limit argument (app.py:27)
    table,       \* the outcome of google_news_to_table (app.py:44)
    df,          \* q_to_tb's df (app.py:62)
    shown,       \* the rows displayed (app.py:85-88)
    fn           \* which pure function the harness applied, "" if none

vars == <<place, max_rows, run, now, hostOffset, ui, t1, t2, query, rss_url,
          fetched, feed, limit, table, df, shown, fn>>

-----------------------------------------------------------------------------
(* Bounds of the model *)

MaxPlaceLen == 3      \* harness place strings have up to this many characters
MaxInputLen == 1      \* the text input holds up to this many characters
MaxTicks == 2         \* the clock advances at most this many minutes
ExtraEntries == 5     \* the longest page feed exceeds LIMIT by this much
MaxEntries == 3       \* harness feeds have up to this many entries
MaxLimit == 2         \* harness limits are 0..MaxLimit

(* Program constants *)

JST_HOURS == 9        \* JST = timezone(timedelta(hours=9))
LIMIT == 50           \* google_news_to_table(rss_url, limit=50)
ILOC_ROWS == 20       \* .iloc[:20]
SLIDER_MIN == 10      \* st.slider(..., 10, 50, 20, 5)
SLIDER_MAX == 50
SLIDER_DEFAULT == 20
SLIDER_STEP == 5

Min(a, b) == IF a <= b THEN a ELSE b

-----------------------------------------------------------------------------
(* Calendar arithmetic of datetime.date / time.mktime (proleptic Gregorian) *)

\* days since 1970-01-01 of the civil date y-m-d
DaysFromCivil(y, m, d) ==
    LET yy  == IF m <= 2 THEN y - 1 ELSE y
        era == yy \div 400
        yoe == yy - era * 400
        mp  == IF m > 2 THEN m - 3 ELSE m + 9
        doy == (153 * mp + 2) \div 5 + d - 1
        doe == yoe * 365 + yoe \div 4 - yoe \div 100 + doy
    IN  era * 146097 + doe - 719468

\* the civil date <<y, m, d>> of a day number (days since 1970-01-01)
CivilFromDays(z) ==
    LET zz  == z + 719468
        era == zz \div 146097
        doe == zz - era * 146097
        yoe == (doe - doe \div 1460 + doe \div 36524 - doe \div 146096) \div 365
        doy == doe - (365 * yoe + yoe \div 4 - yoe \div 100)
        mp  == (5 * doy + 2) \div 153
        d   == doy - (153 * mp + 2) \div 5 + 1
        m   == IF mp < 10 THEN mp + 3 ELSE mp - 9
        y   == yoe + era * 400
    IN  <<IF m <= 2 THEN y + 1 ELSE y, m, d>>

JstOffsetMin == JST_HOURS * 60

\* datetime.now(JST).date(), as a day number, when the clock shows t minutes
JstDate(t) == (t + JstOffsetMin) \div 1440

\* xdaysago(x) when the clock shows t: (today in JST - x days).isoformat()
xdaysago(x, t) == CivilFromDays(JstDate(t) - x)

-----------------------------------------------------------------------------
(* Strings and the query builder *)

Whitespace == {" "}
Chars == Whitespace \cup {"a"}

\* every str of up to n characters
StringsUpTo(n) == UNION {[1..k -> Chars] : k \in 0..n}

Places == StringsUpTo(MaxPlaceLen)

RECURSIVE LStrip(_)
LStrip(s) ==
    IF s = << >> THEN s
    ELSE IF Head(s) \in Whitespace THEN LStrip(Tail(s)) ELSE s

RECURSIVE RStrip(_)
RStrip(s) ==
    IF s = << >> THEN s
    ELSE IF s[Len(s)] \in Whitespace THEN RStrip(SubSeq(s, 1, Len(s) - 1)) ELSE s

\* str.lstrip() in place of str.strip()
Strip_LeftOnly(s) == LStrip(s)

\* str.strip()
Strip(s) == RStrip(LStrip(s))

\* EVENT_TERMS, one token per term; the tokens stand for
\* "イベント OR 開催 OR オープン OR 祭り OR 体験会 OR フェス OR 展示会 OR 展"
EVENT_TERMS ==
    <<"ibento", " ", "OR", " ", "kaisai", " ", "OR", " ", "opun", " ", "OR", " ",
      "matsuri", " ", "OR", " ", "taikenkai", " ", "OR", " ", "fesu", " ", "OR", " ",
      "tenjikai", " ", "OR", " ", "ten">>

\* build_query(place): f'({place.strip()}) AND ({EVENT_TERMS})'
build_query(p) ==
    <<"(">> \o Strip(p) \o <<")", " ", "AND", " ", "(">> \o EVENT_TERMS \o <<")">>

\* urllib.parse.quote_plus of one token (the terms in UTF-8, percent-encoded)
QuoteToken(c) ==
    CASE c = " "         -> "+"
      [] c = "("         -> "%28"
      [] c = ")"         -> "%29"
      [] c = "ibento"    -> "%E3%82%A4%E3%83%99%E3%83%B3%E3%83%88"
      [] c = "kaisai"    -> "%E9%96%8B%E5%82%AC"
      [] c = "opun"      -> "%E3%82%AA%E3%83%BC%E3%83%97%E3%83%B3"
      [] c = "matsuri"   -> "%E7%A5%AD%E3%82%8A"
      [] c = "taikenkai" -> "%E4%BD%93%E9%A8%93%E4%BC%9A"
      [] c = "fesu"      -> "%E3%83%95%E3%82%A7%E3%82%B9"
      [] c = "tenjikai"  -> "%E5%B1%95%E7%A4%BA%E4%BC%9A"
      [] c = "ten"       -> "%E5%B1%95"
      [] OTHER           -> c

quote_plus(s) == [i \in 1..Len(s) |-> QuoteToken(s[i])]

\* the f-string of app.py:60-61 with add = "", part by part
MakeUrl(yesterday, tomorrow, q) ==
    <<"https://news.google.com/rss/search?q=", "after:", yesterday, "+before:",
      tomorrow, "+", quote_plus(q), "&hl=ja&gl=JP&ceid=JP:ja">>

-----------------------------------------------------------------------------
(* Feed entries *)

Some(v) == [has |-> TRUE, val |-> v]

NoStr == [has |-> FALSE, val |-> << >>]

\* dict.get(key, default)
Get(opt, default) == IF opt.has THEN opt.val ELSE default

\* the value of an entry's "source" key: a dict with a title, a dict
\* without one, or something that is no dict
SrcDict(t) == [isdict |-> TRUE, hastitle |-> TRUE, title |-> t]
SrcNoTitle == [isdict |-> TRUE, hastitle |-> FALSE, title |-> << >>]
SrcNotDict == [isdict |-> FALSE, hastitle |-> FALSE, title |-> << >>]
NoSrc == [has |-> FALSE, val |-> SrcNoTitle]

\* the value of an entry's "published_parsed" key: a time struct
\* <<Y, M, D, h, m, s>>, None, or a value time.mktime rejects
PubStruct(tt) == [kind |-> "struct", tt |-> tt]
PubNone == [kind |-> "none", tt |-> << >>]
PubMalformed == [kind |-> "malformed", tt |-> << >>]
NoPub == [has |-> FALSE, val |-> PubNone]

Entry(l, t, s, p) == [link |-> l, title |-> t, source |-> s, published_parsed |-> p]

StructA == <<2024, 6, 14, 15, 30, 0>>
StructB == <<2024, 2, 29, 20, 0, 59>>

\* five shapes of an entry: its title, source and published time
Shape(l, k) ==
    CASE k = 0 -> Entry(l, Some(<<10>>), Some(SrcDict(<<20>>)), Some(PubStruct(StructA)))
      [] k = 1 -> Entry(l, NoStr, NoSrc, NoPub)
      [] k = 2 -> Entry(l, Some(<<11>>), Some(SrcNoTitle), Some(PubMalformed))
      [] k = 3 -> Entry(l, Some(<<12>>), Some(SrcNotDict), Some(PubStruct(StructB)))
      [] OTHER -> Entry(l, Some(<<13>>), Some(SrcDict(<<21>>)), Some(PubNone))

ShapeIds == 0..4

-----------------------------------------------------------------------------
(* The feed normalizer *)

PyNone == [none |-> TRUE, str |-> << >>]
PyStr(s) == [none |-> FALSE, str |-> s]

\* a datetime or None, or an exception raised
NoTime == [exc |-> FALSE, none |-> TRUE, epoch |-> 0, utcoffset |-> 0]
Raised == [exc |-> TRUE, none |-> TRUE, epoch |-> 0, utcoffset |-> 0]
Aware(epoch, off) == [exc |-> FALSE, none |-> FALSE, epoch |-> epoch, utcoffset |-> off]

\* time.mktime(tt): the struct read as local time of the host, in seconds
mktime(tt, host) ==
    DaysFromCivil(tt[1], tt[2], tt[3]) * 86400 + tt[4] * 3600 + tt[5] * 60 + tt[6]
        - host * 60

\* the try block of _published_to_jst
PublishedBody(e, host) ==
    LET tt == Get(e.published_parsed, PubNone)
    IN  IF tt.kind = "none" THEN NoTime
        ELSE IF tt.kind = "malformed" THEN Raised
        ELSE Aware(mktime(tt.tt, host), JstOffsetMin * 60)

\* _published_to_jst without its except clause
published_to_jst_NoExcept(e, host) == PublishedBody(e, host)

published_to_jst(e, host) ==
    LET r == PublishedBody(e, host)
    IN  IF r.exc THEN NoTime ELSE r

\* dt.strftime("%Y-%m-%d %H:%M")
strftime(dt) ==
    LET loc == dt.epoch + dt.utcoffset
        ymd == CivilFromDays(loc \div 86400)
        sod == loc % 86400
    IN  <<ymd[1], ymd[2], ymd[3], sod \div 3600, (sod % 3600) \div 60>>

\* src.get("title") if isinstance(src, dict) else ""
SourceOf(e) ==
    LET src == Get(e.source, SrcNoTitle)
    IN  IF src.isdict
        THEN (IF src.hastitle THEN PyStr(src.title) ELSE PyNone)
        ELSE PyStr(<< >>)

\* the dict appended to rows (app.py:38-43)
Article(e, p) ==
    [title |-> Get(e.title, << >>),
     source |-> SourceOf(e),
     published_jst |-> IF p.none THEN << >> ELSE strftime(p),
     link |-> Get(e.link, << >>)]

\* the loop body without the test "link in seen"
LoopBody_NoSeenTest(st, e, host) ==
    LET link == Get(e.link, << >>)
        p    == published_to_jst(e, host)
    IN  IF link = << >> THEN st
        ELSE IF p.exc THEN [raised |-> TRUE, rows |-> << >>, seen |-> st.seen]
        ELSE [raised |-> FALSE,
              rows   |-> Append(st.rows, Article(e, p)),
              seen   |-> st.seen \cup {link}]

\* one pass of the body of the for loop (app.py:31-43) over entry e, from
\* the rows and the links seen so far
LoopBody(st, e, host) ==
    LET link == Get(e.link, << >>)
        p    == published_to_jst(e, host)
    IN  IF link = << >> \/ link \in st.seen THEN st
        ELSE IF p.exc THEN [raised |-> TRUE, rows |-> << >>, seen |-> st.seen]
        ELSE [raised |-> FALSE,
              rows   |-> Append(st.rows, Article(e, p)),
              seen   |-> st.seen \cup {link}]

\* the for loop, from its i-th pass on; an exception ends it
RECURSIVE Loop(_, _, _, _)
Loop(es, i, st, host) ==
    IF i > Len(es) \/ st.raised THEN st
    ELSE Loop(es, i + 1, LoopBody(st, es[i], host), host)

\* google_news_to_table with the cap put on the rows instead of the entries
google_news_to_table_CapRows(entries, lim, host) ==
    LET st == Loop(entries, 1, [raised |-> FALSE, rows |-> << >>, seen |-> {}], host)
    IN  [raised |-> st.raised, rows |-> SubSeq(st.rows, 1, Min(lim, Len(st.rows)))]

\* fp.entries[:limit]
Slice(s, n) == SubSeq(s, 1, Min(n, Len(s)))

google_news_to_table(entries, lim, host) ==
    LET st == Loop(Slice(entries, lim), 1,
                   [raised |-> FALSE, rows |-> << >>, seen |-> {}], host)
    IN  [raised |-> st.raised, rows |-> st.rows]

-----------------------------------------------------------------------------
(* The page: q_to_tb and the script under "if run" *)

\* df.tail(n) in place of df.head(n)
FirstRows_Tail(rows, n) == SubSeq(rows, Len(rows) - Min(n, Len(rows)) + 1, Len(rows))

\* df.iloc[:n] and df.head(n), n >= 0
FirstRows(rows, n) == SubSeq(rows, 1, Min(n, Len(rows)))

\* q_to_tb(place), whose two clock reads return ta and tb and whose call of
\* google_news_to_table returns t
q_to_tb(p, ta, tb, t) ==
    LET yesterday == xdaysago(1, ta)
        tomorrow  == xdaysago(-1, tb)
        q         == build_query(p)
        url       == MakeUrl(yesterday, tomorrow, q)
    IN  [df |-> FirstRows(t.rows, ILOC_ROWS), rss_url |-> url, query |-> q, table |-> t]

\* "not place" in place of "not place.strip()"
IsEmptyPlace_NoStrip(p) == p = << >>

\* not place.strip()
IsEmptyPlace(p) == Strip(p) = << >>

\* the values the slider offers
SliderValues == {r \in SLIDER_MIN..SLIDER_MAX : (r - SLIDER_MIN) % SLIDER_STEP = 0}

\* the default value of the text input ("渋谷駅")
DefaultPlace == <<"a">>

HostOffsets == {-300, 0, JstOffsetMin}

\* 23:59 JST on 2024-06-15, in minutes since the epoch
ClockStart == (DaysFromCivil(2024, 6, 15) + 1) * 1440 - JstOffsetMin - 1
ClockEnd == ClockStart + MaxTicks

NoTable == [raised |-> FALSE, rows |-> << >>]

\* feeds the page is run against: n entries whose links are all different,
\* come in pairs, repeat every seventh entry, or are empty at every third
PageLink(pat, i) ==
    CASE pat = "unique" -> <<i>>
      [] pat = "pairs"  -> <<(i + 1) \div 2>>
      [] pat = "cycle"  -> <<(i % 7) + 1>>
      [] OTHER          -> IF i % 3 = 0 THEN << >> ELSE <<i>>

PageFeed(n, pat) == [i \in 1..n |-> Shape(Some(PageLink(pat, i)), i % 5)]

FeedLens == {0, 1, ILOC_ROWS - 1, ILOC_ROWS, ILOC_ROWS + 5, LIMIT, LIMIT + ExtraEntries}

PageFeeds == {PageFeed(n, pat) : n \in FeedLens, pat \in {"unique", "pairs", "cycle", "gaps"}}

\* google_news_to_table(rss_url) for every feed the fetch may return and
\* every host (limit takes its default)
TableOf == [f \in PageFeeds, h \in HostOffsets |-> google_news_to_table(f, LIMIT, h)]

\* nothing of q_to_tb has happened in this run of the script
NoSearch ==
    /\ t1' = 0 /\ t2' = 0
    /\ query' = << >> /\ rss_url' = << >>
    /\ fetched' = FALSE
    /\ feed' = << >>
    /\ table' = NoTable
    /\ df' = << >> /\ shown' = << >>

Init ==
    /\ place = DefaultPlace
    /\ max_rows = SLIDER_DEFAULT
    /\ run = FALSE
    /\ now = ClockStart
    /\ hostOffset \in HostOffsets
    /\ ui = "info"
    /\ t1 = 0 /\ t2 = 0
    /\ query = << >> /\ rss_url = << >>
    /\ fetched = FALSE
    /\ feed = << >>
    /\ limit = LIMIT
    /\ table = NoTable
    /\ df = << >> /\ shown = << >>
    /\ fn = ""

\* the user edits the text input: the script reruns with run = False and
\* renders the hint of its else branch
SetPlace ==
    \E p \in StringsUpTo(MaxInputLen) \ {place} :
        /\ place' = p
        /\ run' = FALSE
        /\ ui' = "info"
        /\ NoSearch
        /\ UNCHANGED <<max_rows, now, hostOffset, limit, fn>>

\* the user moves the slider: the script reruns with run = False
SetMaxRows ==
    \E r \in SliderValues \ {max_rows} :
        /\ max_rows' = r
        /\ run' = FALSE
        /\ ui' = "info"
        /\ NoSearch
        /\ UNCHANGED <<place, now, hostOffset, limit, fn>>

\* a minute passes
Tick ==
    /\ now < ClockEnd
    /\ now' = now + 1
    /\ UNCHANGED <<place, max_rows, run, hostOffset, ui, t1, t2, query, rss_url,
                   fetched, feed, limit, table, df, shown, fn>>

\* the user presses the button: a rerun of the script starts with run = True
\* and an empty page
Click ==
    /\ run' = TRUE
    /\ ui' = "running"
    /\ NoSearch
    /\ UNCHANGED <<place, max_rows, now, hostOffset, limit, fn>>

\* the script under "if run" (app.py:74-103); d is the time that passes
\* between the two clock reads of q_to_tb, f what the fetch returns
RunScript ==
    /\ ui = "running"
    /\ UNCHANGED <<place, max_rows, run, hostOffset, limit, fn>>
    /\ IF IsEmptyPlace(place)
       THEN /\ ui' = "warning"
            /\ NoSearch
            /\ now' = now
       ELSE \E d \in 0..1, f \in PageFeeds :
            LET r == q_to_tb(place, now, now + d, TableOf[f, hostOffset])
            IN  /\ now + d <= ClockEnd
                /\ now' = now + d
                /\ t1' = now /\ t2' = now + d
                /\ query' = r.query /\ rss_url' = r.rss_url
                /\ fetched' = TRUE
                /\ feed' = f
                /\ table' = r.table
                /\ IF r.table.raised
                   THEN ui' = "exception" /\ df' = << >> /\ shown' = << >>
                   ELSE /\ df' = r.df
                        /\ IF r.df = << >>
                           THEN ui' = "noresults" /\ shown' = << >>
                           ELSE ui' = "results" /\ shown' = FirstRows(r.df, max_rows)

Next == SetPlace \/ SetMaxRows \/ Tick \/ Click \/ RunScript

Spec == Init /\ [][Next]_vars

-----------------------------------------------------------------------------
(* The pure functions, applied to inputs drawn from bounded sets *)

HarnessEntries ==
    {Shape(NoStr, 1), Shape(Some(<< >>), 0)}
        \cup {Shape(Some(<<l>>), k) : l \in 1..2, k \in ShapeIds}

HarnessFeeds == UNION {[1..n -> HarnessEntries] : n \in 0..MaxEntries}

InitFn ==
    /\ max_rows = SLIDER_DEFAULT
    /\ run = FALSE
    /\ now = ClockStart
    /\ ui = "info"
    /\ t1 = 0 /\ t2 = 0
    /\ query = << >> /\ rss_url = << >>
    /\ fetched = FALSE
    /\ table = NoTable
    /\ df = << >> /\ shown = << >>
    /\ \/ /\ fn = "call build_query"
          /\ place \in Places
          /\ feed = << >> /\ limit = LIMIT /\ hostOffset = 0
       \/ /\ fn = "call google_news_to_table"
          /\ place = DefaultPlace
          /\ feed \in HarnessFeeds
          /\ limit \in 0..MaxLimit
          /\ hostOffset \in HostOffsets

ApplyBuildQuery ==
    /\ fn = "call build_query"
    /\ query' = build_query(place)
    /\ fn' = "build_query"
    /\ UNCHANGED <<place, max_rows, run, now, hostOffset, ui, t1, t2, rss_url,
                   fetched, feed, limit, table, df, shown>>

ApplyTable ==
    /\ fn = "call google_news_to_table"
    /\ table' = google_news_to_table(feed, limit, hostOffset)
    /\ fn' = "google_news_to_table"
    /\ UNCHANGED <<place, max_rows, run, now, hostOffset, ui, t1, t2, query, rss_url,
                   fetched, feed, limit, df, shown>>

NextFn == ApplyBuildQuery \/ ApplyTable

SpecFn == InitFn /\ [][NextFn]_vars

-----------------------------------------------------------------------------
(* Vocabulary of the properties *)

\* the link, the title and the raw fields of a feed entry
LinkOf(e) == IF e.link.has THEN e.link.val ELSE << >>
TitleOf(e) == IF e.title.has THEN e.title.val ELSE << >>
HasStruct(e) == e.published_parsed.has /\ e.published_parsed.val.kind = "struct"
HasNamedSource(e) == e.source.has /\ e.source.val.isdict /\ e.source.val.hastitle

\* the run of google_news_to_table whose outcome the state holds is over
TableDone == fn = "google_news_to_table" \/ (fn = "" /\ fetched)

\* the entries google_news_to_table may examine: the first `limit` ones
Considered == 1..Min(limit, Len(feed))

\* entry i is the first considered entry carrying its (non-empty) link
FirstOfLink(i) ==
    /\ i \in Considered
    /\ LinkOf(feed[i]) # << >>
    /\ \A j \in 1..(i - 1) : LinkOf(feed[j]) # LinkOf(feed[i])

\* row k of rows carries the link and the title of entry i
BuiltFrom(rows, k, i) ==
    /\ rows[k].link = LinkOf(feed[i])
    /\ rows[k].title = TitleOf(feed[i])

IsBlank(p) == \A i \in 1..Len(p) : p[i] \in Whitespace

\* the script reached the end of q_to_tb in its last run
Searched == fn = "" /\ ui \in {"results", "noresults"}

-----------------------------------------------------------------------------
(* C1 *)

\* C1: the rows returned by google_news_to_table hold no two Articles with
\* the same link; every non-empty link among the considered entries has
\* exactly one row, and that row is built from the first entry carrying it.
C1_DedupFirstWins ==
    TableDone =>
        LET rows == table.rows
        IN  /\ \A a, b \in 1..Len(rows) : a # b => rows[a].link # rows[b].link
            /\ \A i \in Considered :
                   FirstOfLink(i) =>
                       /\ Cardinality({k \in 1..Len(rows) : rows[k].link = LinkOf(feed[i])}) = 1
                       /\ \A k \in 1..Len(rows) :
                              rows[k].link = LinkOf(feed[i]) => BuiltFrom(rows, k, i)

\* a feed whose considered entries hold two different entries with one link
C1_Witness ==
    /\ fn = "google_news_to_table"
    /\ Len(table.rows) >= 1
    /\ \E i, j \in Considered :
           /\ i < j
           /\ LinkOf(feed[i]) # << >>
           /\ LinkOf(feed[i]) = LinkOf(feed[j])
           /\ TitleOf(feed[i]) # TitleOf(feed[j])

-----------------------------------------------------------------------------
(* C9 *)

\* C9: the cap `limit` applies to the raw feed, before deduplication: every
\* row is built from one of the first `limit` entries, an entry beyond
\* `limit` yields no row of its own even when duplicates or empty links
\* leave fewer than `limit` rows, and there are at most `limit` rows.
C9_LimitBeforeDedup ==
    TableDone =>
        LET rows == table.rows
        IN  /\ Len(rows) <= limit
            /\ \A k \in 1..Len(rows) :
                   \E i \in Considered : FirstOfLink(i) /\ BuiltFrom(rows, k, i)
            /\ \A i \in 1..Len(feed) :
                   (i > limit /\ \A j \in Considered : LinkOf(feed[j]) # LinkOf(feed[i]))
                       => \A k \in 1..Len(rows) : rows[k].link # LinkOf(feed[i])

\* a feed longer than `limit` whose first `limit` entries repeat a link and
\* which carries a fresh link beyond `limit`
C9_Witness ==
    /\ fn = "google_news_to_table"
    /\ limit >= 2
    /\ Len(feed) > limit
    /\ Len(table.rows) >= 1
    /\ Len(table.rows) < limit
    /\ \E i \in (limit + 1)..Len(feed) :
           /\ LinkOf(feed[i]) # << >>
           /\ \A j \in Considered : LinkOf(feed[j]) # LinkOf(feed[i])

-----------------------------------------------------------------------------
(* C6 *)

\* C6: a considered entry with a non-empty, not yet seen link whose
\* published time is absent, None or not convertible still yields exactly
\* one Article, whose timestamp is the empty string; google_news_to_table
\* does not raise, and every distinct non-empty link keeps its row.
C6_TimestampRobust ==
    TableDone =>
        LET rows == table.rows
        IN  /\ ~table.raised
            /\ Len(rows) = Cardinality({LinkOf(feed[i]) : i \in Considered} \ {<< >>})
            /\ \A i \in Considered :
                   (FirstOfLink(i) /\ ~HasStruct(feed[i])) =>
                       /\ Cardinality({k \in 1..Len(rows) : BuiltFrom(rows, k, i)}) = 1
                       /\ \A k \in 1..Len(rows) :
                              BuiltFrom(rows, k, i) => rows[k].published_jst = << >>

\* an entry whose time conversion raises, kept beside an entry with a time
C6_Witness ==
    /\ fn = "google_news_to_table"
    /\ Len(table.rows) >= 2
    /\ \E i, j \in Considered :
           /\ FirstOfLink(i) /\ FirstOfLink(j)
           /\ feed[i].published_parsed.has
           /\ feed[i].published_parsed.val.kind = "malformed"
           /\ HasStruct(feed[j])

-----------------------------------------------------------------------------
(* C7 *)

\* C7: the source field of every Article is the source name when the entry
\* has a source mapping with a name and the empty string in every other
\* case; it is never None.
C7_SourceIsString ==
    TableDone =>
        \A k \in 1..Len(table.rows), i \in Considered :
            (FirstOfLink(i) /\ BuiltFrom(table.rows, k, i)) =>
                /\ ~table.rows[k].source.none
                /\ table.rows[k].source.str =
                       (IF HasNamedSource(feed[i]) THEN feed[i].source.val.title ELSE << >>)

-----------------------------------------------------------------------------
(* C8 *)

\* the fields <<Y, M, D, h, m>> of a UTC time struct moved to UTC+9
PlusNineHours(tt) ==
    LET mins == DaysFromCivil(tt[1], tt[2], tt[3]) * 1440 + tt[4] * 60 + tt[5] + 9 * 60
        ymd  == CivilFromDays(mins \div 1440)
    IN  <<ymd[1], ymd[2], ymd[3], (mins % 1440) \div 60, mins % 60>>

\* C8: the timestamp of an Article built from an entry with a valid UTC
\* time struct is that instant plus 9 hours, to the minute, whatever the
\* local timezone of the host.
C8_TimestampIsJst ==
    TableDone =>
        \A k \in 1..Len(table.rows), i \in Considered :
            (FirstOfLink(i) /\ BuiltFrom(table.rows, k, i) /\ HasStruct(feed[i])) =>
                table.rows[k].published_jst = PlusNineHours(feed[i].published_parsed.val.tt)

-----------------------------------------------------------------------------
(* C4 *)

\* the eight event terms
EventTermList ==
    <<"ibento", "kaisai", "opun", "matsuri", "taikenkai", "fesu", "tenjikai", "ten">>

\* the terms joined by " OR "
RECURSIVE JoinOr(_)
JoinOr(ts) ==
    IF Len(ts) = 0 THEN << >>
    ELSE IF Len(ts) = 1 THEN <<ts[1]>>
    ELSE <<ts[1], " ", "OR", " ">> \o JoinOr(Tail(ts))

\* "(" + core + ") AND (" + the 8-term disjunction + ")"
QueryAround(core) ==
    <<"(">> \o core \o <<")", " ", "AND", " ", "(">> \o JoinOr(EventTermList) \o <<")">>

\* core is p without its leading and trailing whitespace
IsTrimmed(core, p) ==
    \E lead, trail \in 0..Len(p) :
        /\ lead + trail <= Len(p)
        /\ core = SubSeq(p, lead + 1, Len(p) - trail)
        /\ \A i \in 1..lead : p[i] \in Whitespace
        /\ \A i \in (Len(p) - trail + 1)..Len(p) : p[i] \in Whitespace
        /\ core # << >> => (core[1] \notin Whitespace /\ core[Len(core)] \notin Whitespace)

\* C4, as claimed: for every non-empty p, build_query(p) holds p verbatim,
\* character for character, in its first group.
C4_PlaceVerbatim ==
    (fn = "build_query" /\ place # << >>) => query = QueryAround(place)

\* C4, amended: for every non-empty p, build_query(p) is "(" + p without
\* its leading and trailing whitespace + ") AND (" + the 8-term
\* disjunction + ")".
C4_PlaceTrimmed ==
    (fn = "build_query" /\ place # << >>) =>
        /\ Len(EventTermList) = 8
        /\ \E i, j \in 1..Len(query) :
               /\ i <= j + 1
               /\ IsTrimmed(SubSeq(query, i, j), place)
               /\ query = QueryAround(SubSeq(query, i, j))

\* build_query applied to a place with whitespace on both sides of its core
C4_Witness ==
    /\ fn = "build_query"
    /\ Len(place) >= 3
    /\ place[1] \in Whitespace
    /\ place[Len(place)] \in Whitespace
    /\ ~IsBlank(place)
    /\ Len(query) = Len(QueryAround(<< >>)) + Len(place) - 2

-----------------------------------------------------------------------------
(* C2 *)

\* the number of deduplicated Articles among the first `limit` entries
DistinctLinks == Cardinality({LinkOf(feed[i]) : i \in Considered} \ {<< >>})

\* C2: after a search the page displays the deduplicated Articles of the
\* first 50 entries truncated to the slider's value and by nothing else:
\* exactly min(rowLimit, n) rows.
C2_ShownIsMinOfRowLimit ==
    Searched =>
        /\ limit = 50
        /\ max_rows \in {10, 15, 20, 25, 30, 35, 40, 45, 50}
        /\ Len(shown) = Min(max_rows, DistinctLinks)
        /\ shown = SubSeq(table.rows, 1, Len(shown))

-----------------------------------------------------------------------------
(* C3 *)

\* C3: the two dates of the request URL are D-1 and D+1 for one JST date D,
\* the date of the request, also when midnight passes between the two
\* clock reads.
C3_WindowAroundOneDay ==
    Searched =>
        \E D \in JstDate(t1)..JstDate(t2) :
            /\ rss_url[3] = CivilFromDays(D - 1)
            /\ rss_url[5] = CivilFromDays(D + 1)

-----------------------------------------------------------------------------
(* C5 *)

\* C5: a run triggered with an empty or whitespace-only place shows the
\* warning and stops: no query, no request URL, no fetch; a query, a URL
\* or a fetch exist only for a place that is not blank.
C5_BlankPlaceStops ==
    fn = "" =>
        /\ (run /\ ui # "running" /\ IsBlank(place)) =>
               /\ ui = "warning"
               /\ query = << >> /\ rss_url = << >> /\ ~fetched
               /\ df = << >> /\ shown = << >>
        /\ (query # << >> \/ rss_url # << >> \/ fetched) =>
               /\ run
               /\ \E i \in 1..Len(place) : place[i] \notin Whitespace

\* the button pressed with a whitespace-only place
C5_Witness ==
    /\ run
    /\ ui = "warning"
    /\ Len(place) >= 1
    /\ IsBlank(place)

-----------------------------------------------------------------------------
(* C10 *)

\* the entry row k of rows was built from
SourceEntry(rows, k) ==
    CHOOSE i \in Considered : BuiltFrom(rows, k, i) /\ FirstOfLink(i)

\* C10: the emitted Articles are in the order of the entries they were
\* built from, and the displayed rows are a prefix of the emitted ones.
C10_FeedOrderKept ==
    Searched =>
        LET rows == table.rows
        IN  /\ \A k \in 1..Len(rows) :
                   \E i \in Considered : BuiltFrom(rows, k, i) /\ FirstOfLink(i)
            /\ \A k \in 1..(Len(rows) - 1) :
                   SourceEntry(rows, k) < SourceEntry(rows, k + 1)
            /\ Len(shown) <= Len(rows)
            /\ shown = SubSeq(rows, 1, Len(shown))

\* fewer rows displayed than emitted, from a feed with repeated links
C10_Witness ==
    /\ ui = "results"
    /\ Len(shown) >= 2
    /\ Len(shown) < Len(table.rows)
    /\ Len(table.rows) < Min(limit, Len(feed))

=============================================================================
